---- MODULE Spec2Model ----
(***************************************************************************)
(* Model of the Pub-data-agent pipeline: the compiled workflow graph       *)
(* (src/workflow/graph.py), the planner, collector and communicator nodes  *)
(* (src/agents/*/node.py) and the collector's tools                        *)
(* (src/agents/collector/tools.py).                                        *)
(*                                                                         *)
(* Python values are tagged records: PyInt(1), PyStr("2"), PyNone.  The    *)
(* replies of the hosted language model and of the IBGE REST API are the   *)
(* inputs of the model; they are drawn from small finite sets.             *)
(***************************************************************************)
EXTENDS Integers, Sequences, FiniteSets, TLC

VARIABLES
    node,            \* graph runner: the node to run next, "END" or "raised"
    executed,        \* graph runner: the nodes that ran and returned, in order
    raised,          \* the exception that reached the graph runner ("none" if none)
    execution_plan,  \* AgentState["execution_plan"]
    current_step,    \* AgentState["current_step"]
    data,            \* AgentState["data"]
    cpc,             \* collector_node: the helper call to make next
    loc,             \* collector_node: its local variables
    parsed,          \* collector_node: what the last _parse_*_collector_result returned
    started,         \* collector_node: the helper calls begun, in order
    completed,       \* collector_node: the helper calls that returned normally
    agent_calls,     \* collector_node: collector_agent.invoke count per helper
    requests,        \* collector_node: IBGE request count per endpoint
    sent,            \* the query parameters of each IBGE data request issued
    arg,             \* a single call of a function: its argument
    ret,             \* a single call of a function: what it returned or raised
    _ibge_knowledge_base,  \* vector_store.py: the module's global (None or the instance)
    kb_epoch,        \* vector_store.py: how many times reset_knowledge_base ran
    kb_built,        \* vector_store.py: the IBGEKnowledgeBase instances constructed
    kb_calls         \* vector_store.py: the calls of get_ibge_knowledge_base, in order

pipeVars == <<node, executed, raised, execution_plan, current_step, data>>
collVars == <<cpc, loc, parsed, started, completed, agent_calls, requests, sent>>
fnVars == <<arg, ret>>
kbVars == <<_ibge_knowledge_base, kb_epoch, kb_built, kb_calls>>
vars == <<pipeVars, collVars, fnVars, kbVars>>

---------------------------------------------------------------------------
(* Bounds *)

MaxPlanLen == 2      \* steps in an execution plan the planner model emits
MaxTurns == 1        \* messages the collector agent adds after the prompt
MaxMsgs == 2         \* messages of an agent result handed to a parser alone
MaxVars == 2         \* variables of a collected IBGE reply handed to the communicator
MaxDocs == 3         \* documents of the knowledge base
MaxKbCalls == 3      \* calls of get_ibge_knowledge_base in one process
MaxResets == 2       \* calls of reset_knowledge_base in one process

---------------------------------------------------------------------------
(* Python values *)

PyNone == [t |-> "none"]
PyInt(n) == [t |-> "int", n |-> n]
PyStr(s) == [t |-> "str", s |-> s]

SeqsUpTo(S, n) == UNION {[1..k -> S] : k \in 0..n}

Last(s) == s[Len(s)]

\* str.isdigit() and int(str) over the strings of the model.
IntOfStr == [s \in {"1", "2", "2020", "2022"} |->
                CASE s = "1" -> 1 [] s = "2" -> 2 [] s = "2020" -> 2020 [] s = "2022" -> 2022]

isdigit(s) == s \in DOMAIN IntOfStr

\* str(int) over the integers of the model.
StrOfInt(n) == CHOOSE s \in DOMAIN IntOfStr : IntOfStr[s] = n

\* dict.get(key, default)
Get(d, key, default) == IF key \in DOMAIN d THEN d[key] ELSE default

---------------------------------------------------------------------------
(* Message contents and their JSON reading *)

\* The contents a model message may carry: empty, prose, JSON objects with
\* and without the key "id", a JSON array, and prose that embeds an object.
Contents == {"", "sorry", "{\"id\": 1}", "{\"id\": \"2\"}", "{\"id\": \"N3\"}",
             "{\"id\": \"\"}", "{\"x\": 1}", "[1]", "ok {\"id\": \"N3\"}"}

JSONDecodeError == [ok |-> FALSE]
JsonDict(d) == [ok |-> TRUE, t |-> "dict", d |-> d]
JsonList == [ok |-> TRUE, t |-> "list"]

\* json.loads(content) over Contents.
json_loads(content) ==
    CASE content = "{\"id\": 1}" -> JsonDict([id |-> PyInt(1)])
      [] content = "{\"id\": \"2\"}" -> JsonDict([id |-> PyStr("2")])
      [] content = "{\"id\": \"N3\"}" -> JsonDict([id |-> PyStr("N3")])
      [] content = "{\"id\": \"\"}" -> JsonDict([id |-> PyStr("")])
      [] content = "{\"x\": 1}" -> JsonDict([x |-> PyInt(1)])
      [] content = "[1]" -> JsonList
      [] OTHER -> JSONDecodeError

\* re.search(r'\{[^{}]*"id"[^{}]*:[^{}]*[^{}]*\}', content).group() over
\* Contents: the first brace-free object that names "id", "" when none.
re_search_id_object(content) ==
    CASE content = "{\"id\": 1}" -> content
      [] content = "{\"id\": \"2\"}" -> content
      [] content = "{\"id\": \"N3\"}" -> content
      [] content = "{\"id\": \"\"}" -> content
      [] content = "ok {\"id\": \"N3\"}" -> "{\"id\": \"N3\"}"
      [] OTHER -> ""

IsDictWithId(payload) == payload.ok /\ payload.t = "dict" /\ "id" \in DOMAIN payload.d

MessageClasses == {"AIMessage", "ToolMessage", "HumanMessage"}
Message(cls, content) == [cls |-> cls, content |-> content]

RECURSIVE ParseAssuntoFrom(_, _)
\* The loop of _parse_assunto_collector_result over messages[1..i], last first.
ParseAssuntoFrom(messages, i) ==
    IF i = 0 THEN PyNone
    ELSE LET message == messages[i]
             payload == json_loads(message.content)
         IN  IF message.cls # "AIMessage" THEN ParseAssuntoFrom(messages, i - 1)
             ELSE IF message.content = "" THEN ParseAssuntoFrom(messages, i - 1)
             ELSE IF ~payload.ok THEN ParseAssuntoFrom(messages, i - 1)
             ELSE IF IsDictWithId(payload) THEN payload.d.id
             ELSE ParseAssuntoFrom(messages, i - 1)

_parse_assunto_collector_result(result) ==
    IF "messages" \notin DOMAIN result THEN PyNone
    ELSE ParseAssuntoFrom(result.messages, Len(result.messages))

RECURSIVE ParseTerritorioFrom(_, _)
\* The loop of _parse_territorio_collector_result over messages[1..i], last first.
ParseTerritorioFrom(messages, i) ==
    IF i = 0 THEN PyNone
    ELSE LET message == messages[i]
             clean_content == message.content
             direct == json_loads(clean_content)
             json_match == re_search_id_object(clean_content)
             payload == IF direct.ok THEN direct
                        ELSE IF json_match # "" THEN json_loads(json_match)
                        ELSE JSONDecodeError
         IN  IF message.cls # "AIMessage" THEN ParseTerritorioFrom(messages, i - 1)
             ELSE IF message.content = "" THEN ParseTerritorioFrom(messages, i - 1)
             ELSE IF ~payload.ok THEN ParseTerritorioFrom(messages, i - 1)
             ELSE IF IsDictWithId(payload) /\ payload.d.id.t = "str" THEN payload.d.id
             ELSE IF IsDictWithId(payload) /\ payload.d.id.t = "int"
                  THEN PyStr(StrOfInt(payload.d.id.n))
             ELSE ParseTerritorioFrom(messages, i - 1)

_parse_territorio_collector_result(result) ==
    IF "messages" \notin DOMAIN result THEN PyNone
    ELSE ParseTerritorioFrom(result.messages, Len(result.messages))

---------------------------------------------------------------------------
(* The workflow graph (src/workflow/graph.py) *)

END == "END"

\* g.add_node(...): the nodes of the compiled graph.
GraphNodes == {"planner", "collector"}

\* g.set_entry_point("planner")
EntryPoint == "planner"

\* g.add_edge(...): the node that follows each node.
Edge(n) == CASE n = "planner" -> "collector"
             [] n = "collector" -> END

---------------------------------------------------------------------------
(* The planner node (src/agents/planner/node.py) *)

Agents == {"collector", "analyst", "communicator"}

\* The "parameters" a planned step carries: the keys the prompt asks for, or none.
FullParameters == {"concept", "variables", "territory", "period", "source"}
StepParameters(agent) == IF agent = "collector" THEN {FullParameters, {}} ELSE {FullParameters}

PlanSteps == UNION {[agent : {a}, task : {"task"}, parameters : StepParameters(a)] : a \in Agents}

Plans == SeqsUpTo(PlanSteps, MaxPlanLen)

\* What planner_agent.invoke gives back: it raises, or returns a result in one
\* of the shapes the node distinguishes, carrying text that is no JSON, a JSON
\* array, an object without "execution_plan", an object with a plan, or an
\* ExecutionPlan instance.
PlannerBodies == {[k |-> "text", steps |-> <<>>], [k |-> "list", steps |-> <<>>],
                  [k |-> "dict_noplan", steps |-> <<>>]}
                 \cup [k : {"dict_plan", "model"}, steps : Plans]

PlannerResults ==
    {[shape |-> "raises", body |-> [k |-> "text", steps |-> <<>>]]}
    \cup [shape : {"model_dump"}, body : [k : {"model"}, steps : Plans]]
    \cup [shape : {"output", "parsed"}, body : {b \in PlannerBodies : b.k # "text"}]
    \cup [shape : {"content"}, body : {b \in PlannerBodies : b.k # "model"}]

\* ExecutionPlan.model_validate(plan_data): the fields must be present.
model_validate(plan_data) == plan_data.k = "dict_plan"

\* The try block of planner_node: plan_data out of the agent's result, then
\* execution_plan; [ok |-> FALSE] when the block raises.
planner_execution_plan(result) ==
    LET plan_data ==
            CASE result.shape = "model_dump" -> [ok |-> TRUE, v |-> [k |-> "dict_plan", steps |-> result.body.steps]]
              [] result.shape = "output" -> [ok |-> TRUE, v |-> result.body]
              [] result.shape = "parsed" -> [ok |-> TRUE, v |-> result.body]
              [] result.shape = "content" ->
                    IF result.body.k = "text" THEN [ok |-> FALSE]
                    ELSE [ok |-> TRUE, v |-> result.body]
              [] OTHER -> [ok |-> FALSE]
    IN  IF ~plan_data.ok THEN [ok |-> FALSE]
        ELSE IF plan_data.v.k \in {"dict_plan", "dict_noplan"}
             THEN IF model_validate(plan_data.v)
                  THEN [ok |-> TRUE, steps |-> plan_data.v.steps]
                  ELSE [ok |-> FALSE]
        ELSE IF plan_data.v.k = "model"
             THEN [ok |-> TRUE, steps |-> plan_data.v.steps]
        ELSE [ok |-> FALSE]

planner_node ==
    /\ UNCHANGED <<fnVars, kbVars>>
    /\ node = "planner"
    /\ \E result \in PlannerResults :
         LET plan == planner_execution_plan(result) IN
         IF plan.ok
         THEN /\ execution_plan' = plan.steps
              /\ current_step' = 0
              /\ executed' = Append(executed, "planner")
              /\ node' = Edge("planner")
              /\ UNCHANGED <<raised, data>>
         ELSE /\ raised' = "ValueError: Planner error"
              /\ node' = "raised"
              /\ UNCHANGED <<executed, execution_plan, current_step, data>>
    /\ UNCHANGED collVars

---------------------------------------------------------------------------
(* Replies of the collector agent and of the IBGE REST API *)

PyList(v) == [t |-> "list", v |-> v]
EmptyDict == <<>>

\* collector_agent.invoke(input): it raises, or returns the prompt followed by
\* the messages of the agent's turns.
AgentMessages == {Message(cls, c) : cls \in {"AIMessage", "ToolMessage"}, c \in Contents}
AgentResponses ==
    {[raises |-> TRUE, messages |-> <<>>]}
    \cup {[raises |-> FALSE, messages |-> <<Message("HumanMessage", "prompt")>> \o tail] :
            tail \in SeqsUpTo(AgentMessages, MaxTurns)}

\* GET /v3/agregados?assunto=...: an HTTP error, or the themes with their aggregates.
AgregadosReplies ==
    {[status |-> "error", raw |-> <<>>]}
    \cup [status : {"ok"},
          raw : {<<>>, <<[id |-> "70", agregados |-> <<>>]>>,
                 <<[id |-> "70", agregados |-> <<[id |-> "1"], [id |-> "2"]>>]>>}]

\* GET /v3/agregados/{id}/metadados: an HTTP error, an empty list, or the aggregate.
NivelTerritorialReplies ==
    {EmptyDict, [Administrativo |-> <<>>], [Administrativo |-> <<"N1", "N3">>, IBGE |-> <<"N1">>]}
MetadadosReplies ==
    {[status |-> "error", raw |-> <<>>], [status |-> "ok", raw |-> <<>>]}
    \cup [status : {"ok"},
          raw : {<<d>> : d \in [nivelTerritorial : NivelTerritorialReplies,
                                variaveis : {<<>>, <<[id |-> 93]>>},
                                classificacoes : {<<>>, <<[id |-> 2]>>}]}]

\* GET /v3/agregados/{id}/periodos: an HTTP error, or the periods.
PeriodosReplies ==
    {[status |-> "error", raw |-> <<>>]}
    \cup [status : {"ok"}, raw : {<<>>, <<[id |-> "2020"], [id |-> "2022"]>>}]

\* One variable of GET /v3/agregados/{id}/periodos/{p}/variaveis/{v}.
IbgeVariable(classificacoes, series) ==
    [id |-> "93", variavel |-> "Populacao", unidade |-> "Pessoas",
     resultados |-> <<[classificacoes |-> classificacoes, series |-> series]>>]

Localidade(id) == [id |-> id, nivel |-> [id |-> "N1", nome |-> "Brasil"], nome |-> "Brasil"]
Classificacao(id) == [id |-> id, nome |-> "Sexo", categoria |-> [k |-> "0", v |-> "Total"]]

\* The data request's replies: an HTTP error, no variable, a variable with a
\* numeric value, and one whose value is the "-" IBGE prints for zero.
DadosReplies ==
    {[status |-> "error", raw |-> <<>>]}
    \cup [status : {"ok"},
          raw : {<<>>,
                 <<IbgeVariable(<<Classificacao("2")>>,
                                <<[localidade |-> Localidade("1"), serie |-> <<<<"2022", "2020">>>>]>>)>>,
                 <<IbgeVariable(<<Classificacao("2")>>,
                                <<[localidade |-> Localidade("1"), serie |-> <<<<"2022", "-">>>>]>>)>>}]

\* A tool's argument declared int: pydantic takes an int or a string of digits.
ValidInt(v) == v.t = "int" \/ (v.t = "str" /\ isdigit(v.s))
ToInt(v) == IF v.t = "int" THEN v.n ELSE IntOfStr[v.s]

---------------------------------------------------------------------------
(* The collector node (src/agents/collector/node.py) *)

\* next(step for step in execution_plan if step.get("agent") == "collector")
HasCollectorStep(plan) == \E i \in 1..Len(plan) : plan[i].agent = "collector"
collector_step(plan) ==
    plan[CHOOSE i \in 1..Len(plan) :
            /\ plan[i].agent = "collector"
            /\ \A j \in 1..(i - 1) : plan[j].agent # "collector"]

\* NextCall with the period and territory selections exchanged.
NextCallTerritorioFirst(call) ==
    CASE call = "get_assunto_id" -> "get_agregados_from_assunto"
      [] call = "get_agregados_from_assunto" -> "select_agregado_id"
      [] call = "select_agregado_id" -> "get_agregado_metadata"
      [] call = "get_agregado_metadata" -> "select_territorio_id"
      [] call = "select_territorio_id" -> "select_periodo_id"
      [] call = "select_periodo_id" -> "select_variavel_id"
      [] call = "select_variavel_id" -> "get_classificacao_id"
      [] call = "get_classificacao_id" -> "get_ibge_data"
      [] call = "get_ibge_data" -> "build_result"
      [] call = "build_result" -> "return"

\* The calls of the try block of collector_node, in the order it makes them.
NextCall(call) ==
    CASE call = "get_assunto_id" -> "get_agregados_from_assunto"
      [] call = "get_agregados_from_assunto" -> "select_agregado_id"
      [] call = "select_agregado_id" -> "get_agregado_metadata"
      [] call = "get_agregado_metadata" -> "select_periodo_id"
      [] call = "select_periodo_id" -> "select_territorio_id"
      [] call = "select_territorio_id" -> "select_variavel_id"
      [] call = "select_variavel_id" -> "get_classificacao_id"
      [] call = "get_classificacao_id" -> "get_ibge_data"
      [] call = "get_ibge_data" -> "build_result"
      [] call = "build_result" -> "return"

\* OnRaise with a handler that runs the failed call again.
OnRaiseRetry(call) == call

\* try: ... except Exception: where an exception of a call takes control.
OnRaise(call) == "except"

Calls == {"get_assunto_id", "get_agregados_from_assunto", "select_agregado_id",
          "get_agregado_metadata", "select_periodo_id", "select_territorio_id",
          "select_variavel_id", "get_classificacao_id", "get_ibge_data", "build_result"}
AgentCalls == {"get_assunto_id", "select_agregado_id", "select_periodo_id",
               "select_territorio_id", "select_variavel_id"}
Endpoints == {"agregados", "metadados", "periodos", "dados"}

NoLocals == [assunto_id |-> PyNone, agregados |-> PyNone, agregados_id |-> PyNone,
             agregados_metadados |-> PyNone, periodo_id |-> PyNone,
             territorio_id |-> PyNone, variavel_id |-> PyNone,
             classificacao_id |-> PyNone, results |-> PyNone]

\* CollectorCompleteResult(...).model_dump(), the fields the model follows.
CollectorCompleteResult(success, errors, raw_dados) ==
    [t |-> "dict", success |-> success, errors |-> errors, raw_dados |-> raw_dados]

\* The node returns: the graph runner merges the update and follows the edge.
CollectorReturns(result) ==
    /\ data' = result
    /\ current_step' = current_step + 1
    /\ executed' = Append(executed, "collector")
    /\ node' = Edge("collector")
    /\ cpc' = "return"
    /\ UNCHANGED <<raised, execution_plan>>

\* A call of the try block returns normally.
Returns(call, locals) ==
    /\ completed' = Append(completed, call)
    /\ loc' = locals
    /\ cpc' = NextCall(call)
    /\ UNCHANGED pipeVars

\* A call of the try block raises: the except clause returns the failure result.
Raises(call, error) ==
    /\ UNCHANGED <<completed, loc>>
    /\ IF OnRaise(call) = "except"
       THEN CollectorReturns(CollectorCompleteResult(FALSE, <<error>>, PyNone))
       ELSE cpc' = OnRaise(call) /\ UNCHANGED pipeVars

At(call) == node = "collector" /\ cpc = call
Begins(call) == started' = Append(started, call)
Invokes(call) == agent_calls' = [agent_calls EXCEPT ![call] = @ + 1]
Requests(endpoints) == requests' = [e \in Endpoints |-> requests[e] + (IF e \in endpoints THEN 1 ELSE 0)]

\* Lines 26-47: the node looks up its step; without one it raises outside the try.
collector_node_start ==
    /\ UNCHANGED <<fnVars, kbVars>>
    /\ At("start")
    /\ IF HasCollectorStep(execution_plan)
       THEN /\ cpc' = "get_assunto_id"
            /\ UNCHANGED pipeVars
       ELSE /\ raised' = "ValueError: Collector step not found in execution plan"
            /\ node' = "raised"
            /\ cpc' = "return"
            /\ UNCHANGED <<executed, execution_plan, current_step, data>>
    /\ UNCHANGED <<loc, parsed, started, completed, agent_calls, requests, sent>>

get_assunto_id ==
    /\ UNCHANGED <<fnVars, kbVars>>
    /\ At("get_assunto_id")
    /\ Begins("get_assunto_id") /\ Invokes("get_assunto_id")
    /\ \E response \in AgentResponses :
         LET assunto_id == _parse_assunto_collector_result(response) IN
         IF response.raises
         THEN Raises("get_assunto_id", "agent error") /\ UNCHANGED parsed
         ELSE /\ parsed' = assunto_id
              /\ IF assunto_id = PyNone
                 THEN Raises("get_assunto_id", "ValueError: assunto")
                 ELSE Returns("get_assunto_id", [loc EXCEPT !.assunto_id = assunto_id])
    /\ UNCHANGED <<requests, sent>>

\* ibge_agregados_request (tools.py): the tool's output for the API's reply.
ibge_agregados_output(raw) ==
    [temas_encontrados |->
        [i \in 1..Len(raw) |->
            [tema_id |-> raw[i].id,
             agregados |-> [j \in 1..Len(raw[i].agregados) |->
                              [agregado_id |-> raw[i].agregados[j].id]]]]]

get_agregados_from_assunto ==
    /\ UNCHANGED <<fnVars, kbVars>>
    /\ At("get_agregados_from_assunto")
    /\ Begins("get_agregados_from_assunto")
    /\ IF ~ValidInt(loc.assunto_id)
       THEN /\ Raises("get_agregados_from_assunto", "ValidationError: assunto_id")
            /\ UNCHANGED requests
       ELSE /\ Requests({"agregados"})
            /\ \E reply \in AgregadosReplies :
                 IF reply.status = "error"
                 THEN Raises("get_agregados_from_assunto", "HTTPError")
                 ELSE Returns("get_agregados_from_assunto",
                              [loc EXCEPT !.agregados = ibge_agregados_output(reply.raw)])
    /\ UNCHANGED <<parsed, agent_calls, sent>>

select_agregado_id ==
    /\ UNCHANGED <<fnVars, kbVars>>
    /\ At("select_agregado_id")
    /\ Begins("select_agregado_id")
    /\ LET temas == loc.agregados.temas_encontrados IN
       IF temas = <<>>
       THEN Raises("select_agregado_id", "IndexError") /\ UNCHANGED <<parsed, agent_calls>>
       ELSE IF temas[1].agregados = <<>>
       THEN Raises("select_agregado_id", "ValueError: agregados") /\ UNCHANGED <<parsed, agent_calls>>
       ELSE /\ Invokes("select_agregado_id")
            /\ \E response \in AgentResponses :
                 LET agregado_id == _parse_assunto_collector_result(response) IN
                 IF response.raises
                 THEN Raises("select_agregado_id", "agent error") /\ UNCHANGED parsed
                 ELSE /\ parsed' = agregado_id
                      /\ IF agregado_id.t = "str"
                         THEN IF isdigit(agregado_id.s)
                              THEN Returns("select_agregado_id",
                                           [loc EXCEPT !.agregados_id = PyInt(IntOfStr[agregado_id.s])])
                              ELSE Raises("select_agregado_id", "ValueError: int()")
                         ELSE IF agregado_id = PyNone
                              THEN Raises("select_agregado_id", "ValueError: agregado")
                              ELSE Returns("select_agregado_id", [loc EXCEPT !.agregados_id = agregado_id])
    /\ UNCHANGED <<requests, sent>>

PyDict(d) == [t |-> "dict", d |-> d]

\* ibge_agregado_metadados_request (tools.py), after both requests: the tool's
\* output for the aggregate and the periods the API returned.
ibge_agregado_metadados_output(agregado_data, periodos_data) ==
    LET niveis == Get(agregado_data, "nivelTerritorial", EmptyDict)
        variaveis == Get(agregado_data, "variaveis", <<>>)
        classificacoes == Get(agregado_data, "classificacoes", <<>>)
        metadados ==
            (IF niveis # EmptyDict
             THEN [nivelTerritorial |->
                      [Administrativo |-> Get(niveis, "Administrativo", <<>>),
                       Especial |-> Get(niveis, "Especial", <<>>),
                       IBGE |-> Get(niveis, "IBGE", <<>>)]]
             ELSE EmptyDict)
            @@ (IF variaveis # <<>> THEN [variaveis |-> variaveis] ELSE EmptyDict)
            @@ (IF classificacoes # <<>> THEN [classificacoes |-> classificacoes] ELSE EmptyDict)
        periodos_formatados ==
            [i \in 1..Len(periodos_data) |-> PyDict([periodo_id |-> PyStr(periodos_data[i].id)])]
    IN  [success |-> TRUE,
         metadados |-> metadados,
         periodos_disponiveis |-> [periodos |-> periodos_formatados]]

get_agregado_metadata ==
    /\ UNCHANGED <<fnVars, kbVars>>
    /\ At("get_agregado_metadata")
    /\ Begins("get_agregado_metadata")
    /\ \E metadados \in MetadadosReplies :
         IF metadados.status = "error"
         THEN /\ Requests({"metadados"})
              /\ Returns("get_agregado_metadata",
                         [loc EXCEPT !.agregados_metadados = [success |-> FALSE]])
         ELSE /\ Requests({"metadados", "periodos"})
              /\ \E periodos \in PeriodosReplies :
                   LET periodos_data == IF periodos.status = "error" THEN <<>> ELSE periodos.raw IN
                   IF metadados.raw = <<>>
                   THEN Raises("get_agregado_metadata", "AttributeError")
                   ELSE Returns("get_agregado_metadata",
                                [loc EXCEPT !.agregados_metadados =
                                    ibge_agregado_metadados_output(metadados.raw[1], periodos_data)])
    /\ UNCHANGED <<parsed, agent_calls, sent>>

\* Lines 354-366 of select_periodo_id: the id out of the agent's answer, or
\* the fallback; [ok |-> FALSE] when the function raises.
periodo_from(parsed_id, periodos_list) ==
    LET periodo_id ==
            IF parsed_id.t = "str" /\ isdigit(parsed_id.s) THEN PyInt(IntOfStr[parsed_id.s])
            ELSE IF parsed_id = PyNone
                 THEN LET fallback == Last(periodos_list) IN
                      IF fallback.t = "str" /\ isdigit(fallback.s)
                      THEN PyInt(IntOfStr[fallback.s])
                      ELSE fallback
            ELSE parsed_id
    IN  IF periodo_id.t = "int" THEN [ok |-> TRUE, v |-> periodo_id] ELSE [ok |-> FALSE]

select_periodo_id ==
    /\ UNCHANGED <<fnVars, kbVars>>
    /\ At("select_periodo_id")
    /\ Begins("select_periodo_id")
    /\ LET periodos_list == Get(Get(loc.agregados_metadados, "periodos_disponiveis", EmptyDict),
                                "periodos", <<>>) IN
       IF periodos_list = <<>>
       THEN Raises("select_periodo_id", "ValueError: periodos") /\ UNCHANGED <<parsed, agent_calls>>
       ELSE /\ Invokes("select_periodo_id")
            /\ \E response \in AgentResponses :
                 LET periodo_id == periodo_from(_parse_assunto_collector_result(response), periodos_list) IN
                 IF response.raises
                 THEN Raises("select_periodo_id", "agent error") /\ UNCHANGED parsed
                 ELSE /\ parsed' = _parse_assunto_collector_result(response)
                      /\ IF periodo_id.ok
                         THEN Returns("select_periodo_id", [loc EXCEPT !.periodo_id = periodo_id.v])
                         ELSE Raises("select_periodo_id", "ValueError: periodo invalido")
    /\ UNCHANGED <<requests, sent>>

RECURSIVE Dedupe(_)
\* list(dict.fromkeys(codes)): the first occurrence of each code, in order.
Dedupe(codes) ==
    IF codes = <<>> THEN <<>>
    ELSE LET init == Dedupe(SubSeq(codes, 1, Len(codes) - 1)) IN
         IF \E i \in 1..Len(init) : init[i] = Last(codes) THEN init
         ELSE Append(init, Last(codes))

\* Lines 377-394 of select_territorio_id: the codes of every territorial level.
all_territorial_codes(nivel_territorial) ==
    Dedupe(nivel_territorial.Administrativo \o nivel_territorial.Especial \o nivel_territorial.IBGE)

\* "N1[all]", Brasil: the default territory.
DefaultTerritorio == PyStr("N1[all]")

\* Lines 440-444 of select_territorio_id: the fallback.
territorio_from(parsed_id) == IF parsed_id = PyNone THEN DefaultTerritorio ELSE parsed_id

select_territorio_id ==
    /\ UNCHANGED <<fnVars, kbVars>>
    /\ At("select_territorio_id")
    /\ Begins("select_territorio_id")
    /\ LET nivel_territorial == Get(Get(loc.agregados_metadados, "metadados", EmptyDict),
                                    "nivelTerritorial", EmptyDict) IN
       IF nivel_territorial = EmptyDict
       THEN Raises("select_territorio_id", "ValueError: nivel territorial") /\ UNCHANGED <<parsed, agent_calls>>
       ELSE IF all_territorial_codes(nivel_territorial) = <<>>
       THEN Raises("select_territorio_id", "ValueError: codigo territorial") /\ UNCHANGED <<parsed, agent_calls>>
       ELSE /\ Invokes("select_territorio_id")
            /\ \E response \in AgentResponses :
                 IF response.raises
                 THEN Raises("select_territorio_id", "agent error") /\ UNCHANGED parsed
                 ELSE /\ parsed' = _parse_territorio_collector_result(response)
                      /\ Returns("select_territorio_id",
                                 [loc EXCEPT !.territorio_id =
                                     territorio_from(_parse_territorio_collector_result(response))])
    /\ UNCHANGED <<requests, sent>>

select_variavel_id ==
    /\ UNCHANGED <<fnVars, kbVars>>
    /\ At("select_variavel_id")
    /\ Begins("select_variavel_id")
    /\ LET variaveis == Get(Get(loc.agregados_metadados, "metadados", EmptyDict), "variaveis", <<>>) IN
       IF variaveis = <<>>
       THEN Raises("select_variavel_id", "ValueError: variaveis") /\ UNCHANGED <<parsed, agent_calls>>
       ELSE /\ Invokes("select_variavel_id")
            /\ \E response \in AgentResponses :
                 LET variavel_id == _parse_assunto_collector_result(response) IN
                 IF response.raises
                 THEN Raises("select_variavel_id", "agent error") /\ UNCHANGED parsed
                 ELSE /\ parsed' = variavel_id
                      /\ IF variavel_id = PyNone
                         THEN Raises("select_variavel_id", "ValueError: variavel")
                         ELSE Returns("select_variavel_id", [loc EXCEPT !.variavel_id = variavel_id])
    /\ UNCHANGED <<requests, sent>>

get_classificacao_id ==
    /\ UNCHANGED <<fnVars, kbVars>>
    /\ At("get_classificacao_id")
    /\ Begins("get_classificacao_id")
    /\ LET classificacoes == Get(Get(loc.agregados_metadados, "metadados", EmptyDict),
                                 "classificacoes", <<>>) IN
       IF classificacoes # <<>>
       THEN Returns("get_classificacao_id",
                    [loc EXCEPT !.classificacao_id = PyInt(classificacoes[1].id)])
       ELSE Returns("get_classificacao_id", [loc EXCEPT !.classificacao_id = PyNone])
    /\ UNCHANGED <<parsed, agent_calls, requests, sent>>

\* ibge_agregado_dados_request (tools.py), lines 400-449: the path and the
\* query parameters of the request.
ibge_dados_request(agregado, periodo, variavel, territorio, classificacao) ==
    [agregado |-> agregado,
     periodo |-> StrOfInt(periodo),
     variavel |-> StrOfInt(variavel),
     params |-> (IF territorio # "" THEN [localidades |-> territorio] ELSE EmptyDict)
                @@ (IF classificacao # PyNone
                    THEN [classificacao |-> StrOfInt(classificacao.n)]
                    ELSE EmptyDict)]

\* get_ibge_data, lines 491-504: the arguments handed to the tool.
ibge_data_params(locals) ==
    [agregado |-> locals.agregados_id,
     periodo |-> locals.periodo_id,
     variavel |-> locals.variavel_id,
     territorio |-> IF locals.territorio_id = PyNone THEN DefaultTerritorio
                    ELSE locals.territorio_id,
     classificacao |-> locals.classificacao_id]

get_ibge_data ==
    /\ UNCHANGED <<fnVars, kbVars>>
    /\ At("get_ibge_data")
    /\ Begins("get_ibge_data")
    /\ LET params == ibge_data_params(loc) IN
       IF ~(ValidInt(params.agregado) /\ ValidInt(params.periodo) /\ ValidInt(params.variavel))
       THEN /\ Raises("get_ibge_data", "ValidationError")
            /\ UNCHANGED <<requests, sent>>
       ELSE /\ Requests({"dados"})
            /\ sent' = Append(sent, ibge_dados_request(ToInt(params.agregado), ToInt(params.periodo),
                                                       ToInt(params.variavel), params.territorio.s,
                                                       params.classificacao))
            /\ \E reply \in DadosReplies :
                 IF reply.status = "error"
                 THEN Raises("get_ibge_data", "HTTPError")
                 ELSE Returns("get_ibge_data", [loc EXCEPT !.results = PyList(reply.raw)])
    /\ UNCHANGED <<parsed, agent_calls>>

\* float(valor) of ibge_results_to_dataframe, line 229: it raises on a value
\* that is neither "..." nor a number.
FloatRaises(valor) == valor # "..." /\ ~isdigit(valor)

\* ibge_results_to_dataframe, lines 187-230: whether building the rows raises.
DataframeRaises(results) ==
    \E v \in 1..Len(results) : \E r \in 1..Len(results[v].resultados) :
        LET resultado == results[v].resultados[r] IN
        /\ resultado.classificacoes # <<>>
        /\ \E s \in 1..Len(resultado.series) : \E p \in 1..Len(resultado.series[s].serie) :
              FloatRaises(resultado.series[s].serie[p][2])

\* Lines 93-141: the dataframe, the result and the return of the node.
build_result ==
    /\ UNCHANGED <<fnVars, kbVars>>
    /\ At("build_result")
    /\ Begins("build_result")
    /\ LET parameters == collector_step(execution_plan).parameters IN
       IF ~({"concept", "territory"} \subseteq parameters)
       THEN Raises("build_result", "KeyError")
       ELSE IF DataframeRaises(loc.results.v)
       THEN Raises("build_result", "ValueError: float()")
       ELSE /\ completed' = Append(completed, "build_result")
            /\ CollectorReturns(CollectorCompleteResult(TRUE, <<>>, loc.results))
            /\ UNCHANGED loc
    /\ UNCHANGED <<parsed, agent_calls, requests, sent>>

---------------------------------------------------------------------------
(* The run of the compiled graph: graph.invoke(initial_state) of src/main.py *)

NotCalled == [called |-> FALSE]

\* initial_state of src/main.py, before graph.invoke.
InitialState ==
    /\ node = EntryPoint
    /\ executed = <<>>
    /\ raised = "none"
    /\ execution_plan = <<>>
    /\ current_step = 0
    /\ data = PyNone
    /\ cpc = "start"
    /\ loc = NoLocals
    /\ parsed = PyNone
    /\ started = <<>>
    /\ completed = <<>>
    /\ agent_calls = [c \in AgentCalls |-> 0]
    /\ requests = [e \in Endpoints |-> 0]
    /\ sent = <<>>
    /\ _ibge_knowledge_base = PyNone
    /\ kb_epoch = 0
    /\ kb_built = <<>>
    /\ kb_calls = <<>>

Init ==
    /\ InitialState
    /\ arg = PyNone
    /\ ret = NotCalled

Next ==
    \/ planner_node
    \/ collector_node_start
    \/ get_assunto_id
    \/ get_agregados_from_assunto
    \/ select_agregado_id
    \/ get_agregado_metadata
    \/ select_periodo_id
    \/ select_territorio_id
    \/ select_variavel_id
    \/ get_classificacao_id
    \/ get_ibge_data
    \/ build_result

Spec == Init /\ [][Next]_vars

---------------------------------------------------------------------------
(* Properties of the run of the graph *)

\* C1: a run of the compiled graph executes exactly the nodes planner,
\* collector, communicator, in that order, one after the other, and then
\* reaches END.
C1_RunsThreeNodesInOrder ==
    node = END => executed = <<"planner", "collector", "communicator">>

\* C2: no node lets an exception reach the graph runner; an error inside a
\* node ends in a returned state update.
C2_NoNodeRaises ==
    node # "raised" /\ raised = "none"

IsResolutionCall(call) ==
    call \in {"get_assunto_id", "select_agregado_id", "select_periodo_id",
              "select_territorio_id", "select_variavel_id", "get_classificacao_id",
              "get_ibge_data"}

IsPrefix(s, t) == Len(s) <= Len(t) /\ \A i \in 1..Len(s) : s[i] = t[i]

\* C3: the collector runs subject, aggregate, period, territory, variable,
\* classification in this order, a step starts only when every earlier step
\* succeeded, the data request is issued only after all six succeeded, and
\* the first failing step ends the run.
C3_ResolutionOrder ==
    LET begun == SelectSeq(started, IsResolutionCall)
        done == SelectSeq(completed, IsResolutionCall)
    IN  /\ IsPrefix(begun, <<"get_assunto_id", "select_agregado_id", "select_periodo_id",
                             "select_territorio_id", "select_variavel_id",
                             "get_classificacao_id", "get_ibge_data">>)
        /\ IsPrefix(done, begun)
        /\ Len(begun) <= Len(done) + 1
        /\ Len(started) <= Len(completed) + 1
        /\ Len(started) > Len(completed) =>
              cpc = "return" /\ data # PyNone /\ ~data.success
        /\ Len(sent) > 0 => Len(done) >= 6
        /\ Len(sent) <= 1

C3_Witness ==
    /\ Len(sent) = 1
    /\ Len(SelectSeq(completed, IsResolutionCall)) = 7
    /\ Last(completed) = "get_ibge_data"

\* C5: every execution plan the planner returns starts with a collector step
\* and ends with a communicator step.
C5_PlanCollectorFirstCommunicatorLast ==
    executed # <<>> =>
        /\ execution_plan # <<>>
        /\ execution_plan[1].agent = "collector"
        /\ Last(execution_plan).agent = "communicator"

\* C6: when the agent's answer to the period selection holds no parseable id,
\* select_periodo_id returns the id of the last available period, as an integer.
C6_PeriodFallsBackToLast ==
    (/\ started # <<>>
     /\ Last(started) = "select_periodo_id"
     /\ agent_calls["select_periodo_id"] = 1
     /\ parsed = PyNone)
    => /\ Last(completed) = "select_periodo_id"
       /\ loc.periodo_id =
             PyInt(IntOfStr[Last(loc.agregados_metadados.periodos_disponiveis.periodos).d.periodo_id.s])

\* C7: every IBGE data request carries a non-empty localidades parameter.
C7_RequestsCarryTerritory ==
    \A i \in 1..Len(sent) :
        /\ "localidades" \in DOMAIN sent[i].params
        /\ sent[i].params.localidades # ""

\* C9: within one run of the collector no step is retried: the agent is
\* invoked at most once per selection step, at most five times in all, and
\* each IBGE request is issued at most once.
C9_NoRetry ==
    /\ \A c \in AgentCalls : agent_calls[c] <= 1
    /\ agent_calls["get_assunto_id"] + agent_calls["select_agregado_id"]
         + agent_calls["select_periodo_id"] + agent_calls["select_territorio_id"]
         + agent_calls["select_variavel_id"] <= 5
    /\ \A e \in Endpoints : requests[e] <= 1
    /\ \A c \in Calls : Cardinality({i \in 1..Len(started) : started[i] = c}) <= 1

C9_Witness ==
    /\ \A c \in AgentCalls : agent_calls[c] = 1
    /\ \A e \in Endpoints : requests[e] = 1
    /\ cpc = "return"

---------------------------------------------------------------------------
(* The parsers of the collector, called alone on any agent result *)

AllMessages == {Message(cls, c) : cls \in MessageClasses, c \in Contents}

Returned(fn, v) == [called |-> TRUE, fn |-> fn, v |-> v]

InitParse ==
    /\ InitialState
    /\ arg \in {PyNone} \cup [messages : SeqsUpTo(AllMessages, MaxMsgs)]
    /\ ret = NotCalled

parse_assunto_call ==
    /\ ret = NotCalled
    /\ ret' = Returned("_parse_assunto_collector_result", _parse_assunto_collector_result(arg))
    /\ UNCHANGED <<pipeVars, collVars, arg, kbVars>>

parse_territorio_call ==
    /\ ret = NotCalled
    /\ ret' = Returned("_parse_territorio_collector_result", _parse_territorio_collector_result(arg))
    /\ UNCHANGED <<pipeVars, collVars, arg, kbVars>>

NextParse == parse_assunto_call \/ parse_territorio_call

SpecParse == InitParse /\ [][NextParse]_vars

\* The AIMessages that carry content.
AIMessageIndexes(messages) ==
    {i \in 1..Len(messages) : messages[i].cls = "AIMessage" /\ messages[i].content # ""}
MaxOf(S) == CHOOSE i \in S : \A j \in S : j <= i

\* C8: _parse_assunto_collector_result takes the id only from the final
\* AIMessage (the last one with content): when that message's content is no JSON object with the key
\* "id" the result is None, whatever the earlier messages hold; tool and human
\* messages are never inspected.
C8_IdOnlyFromFinalAIMessage ==
    (ret.called /\ ret.fn = "_parse_assunto_collector_result" /\ arg # PyNone) =>
        LET ai == AIMessageIndexes(arg.messages) IN
        IF ai = {} THEN ret.v = PyNone
        ELSE LET payload == json_loads(arg.messages[MaxOf(ai)].content) IN
             IF IsDictWithId(payload) THEN ret.v = payload.d.id ELSE ret.v = PyNone

---------------------------------------------------------------------------
(* The communicator node (src/agents/communicator/node.py) *)

RECURSIVE Concat(_)
\* The rows of several lists, one list after the other.
Concat(seqs) == IF seqs = <<>> THEN <<>> ELSE Head(seqs) \o Concat(Tail(seqs))

\* Lines 252-264 of flatten_ibge_structure: the value as a number, None when
\* nothing numeric is left of it.
valor_numerico(valor) == IF isdigit(valor) THEN PyInt(IntOfStr[valor]) ELSE PyNone

Row(variable, class_row, localidade, periodo, valor, numerico) ==
    [variavel_id |-> variable.id, variavel |-> variable.variavel, unidade |-> variable.unidade,
     classificacao_id |-> class_row.classificacao_id, classificacao |-> class_row.classificacao,
     categoria_id |-> class_row.categoria_id, categoria |-> class_row.categoria,
     localidade_id |-> localidade.id, localidade |-> localidade.nome,
     nivel_geografico_id |-> localidade.nivel_id, nivel_geografico |-> localidade.nivel_nome,
     periodo |-> periodo, valor |-> valor, valor_numerico |-> numerico]

NoClassRow == [classificacao_id |-> "", classificacao |-> "", categoria_id |-> "", categoria |-> ""]
NoLocalidade == [id |-> "", nome |-> "", nivel_id |-> "", nivel_nome |-> ""]

\* Lines 205-234 of flatten_ibge_structure: one entry per classification, a
\* blank one when there is none.
classification_rows(classificacoes) ==
    IF classificacoes # <<>>
    THEN [i \in 1..Len(classificacoes) |->
            LET categoria == Get(classificacoes[i], "categoria", EmptyDict) IN
            [classificacao_id |-> Get(classificacoes[i], "id", ""),
             classificacao |-> Get(classificacoes[i], "nome", ""),
             categoria_id |-> IF categoria # EmptyDict THEN categoria.k ELSE "",
             categoria |-> IF categoria # EmptyDict THEN categoria.v ELSE ""]]
    ELSE <<NoClassRow>>

\* Lines 236-321 of flatten_ibge_structure: the rows of one resultado.
resultado_rows(variable, resultado) ==
    LET class_rows == classification_rows(Get(resultado, "classificacoes", <<>>))
        series == Get(resultado, "series", <<>>)
        RowsOf(localidade, periodo, valor, numerico) ==
            [c \in 1..Len(class_rows) |-> Row(variable, class_rows[c], localidade, periodo, valor, numerico)]
        SerieRows(serie) ==
            LET local == Get(serie, "localidade", EmptyDict)
                nivel == Get(local, "nivel", EmptyDict)
                localidade == [id |-> Get(local, "id", ""), nome |-> Get(local, "nome", ""),
                               nivel_id |-> Get(nivel, "id", ""), nivel_nome |-> Get(nivel, "nome", "")]
                serie_data == Get(serie, "serie", <<>>)
            IN  IF serie_data # <<>>
                THEN Concat([p \in 1..Len(serie_data) |->
                                RowsOf(localidade, serie_data[p][1], serie_data[p][2],
                                       valor_numerico(serie_data[p][2]))])
                ELSE RowsOf(localidade, "", "", PyNone)
    IN  IF series # <<>>
        THEN Concat([s \in 1..Len(series) |-> SerieRows(series[s])])
        ELSE RowsOf(NoLocalidade, "", "", PyNone)

flatten_ibge_structure(data_item) ==
    LET variable == [id |-> Get(data_item, "id", ""), variavel |-> Get(data_item, "variavel", ""),
                     unidade |-> Get(data_item, "unidade", "")]
        resultados == Get(data_item, "resultados", <<>>)
    IN  IF resultados = <<>>
        THEN <<Row(variable, NoClassRow, NoLocalidade, "", "", PyNone)>>
        ELSE Concat([r \in 1..Len(resultados) |-> resultado_rows(variable, resultados[r])])

\* transform_ibge_to_dataframe: the rows of the dataframe; [ok |-> FALSE]
\* when the data is neither a list nor a dict.
transform_ibge_to_dataframe(collector_data) ==
    IF collector_data.t = "list"
    THEN [ok |-> TRUE,
          rows |-> Concat([i \in 1..Len(collector_data.v) |-> flatten_ibge_structure(collector_data.v[i])])]
    ELSE IF collector_data.t = "dict"
    THEN [ok |-> TRUE, rows |-> flatten_ibge_structure(collector_data)]
    ELSE [ok |-> FALSE]

\* communicator_node(state): the state update it returns.
communicator_update(state) ==
    LET collector_data == state.data
        df == transform_ibge_to_dataframe(collector_data)
    IN  IF df.ok
        THEN [current_step |-> state.current_step + 1, data |-> collector_data,
              dataframe |-> df.rows, communication_result |-> [success |-> TRUE]]
        ELSE [current_step |-> state.current_step + 1, data |-> collector_data,
              communication_result |-> [success |-> FALSE]]

\* The series of one locality, over one or two periods, with a number and
\* the "..." IBGE prints for a missing value.
SerieOptions == {<<>>, <<<<"2020", "1">>>>, <<<<"2020", "1">>, <<"2022", "...">>>>}
SeriesOptions ==
    {<<>>}
    \cup {<<[localidade |-> Localidade("1"), serie |-> s]>> : s \in SerieOptions}
    \cup {<<[localidade |-> Localidade("1"), serie |-> s1], [localidade |-> Localidade("2"), serie |-> s2]>> :
            s1 \in SerieOptions, s2 \in SerieOptions}
ClassificacoesOptions == {<<>>, <<Classificacao("1")>>, <<Classificacao("1"), Classificacao("2")>>}
IbgeVariables == {IbgeVariable(c, s) : c \in ClassificacoesOptions, s \in SeriesOptions}

\* The states the communicator may be handed: after a collector run that
\* succeeded with some variables, after one that failed, and with no data.
CommunicatorStates ==
    [current_step : {1},
     data : {PyNone, CollectorCompleteResult(FALSE, <<"error">>, PyNone)}
            \cup {CollectorCompleteResult(TRUE, <<>>, PyList(raw)) :
                    raw \in SeqsUpTo(IbgeVariables, MaxVars) \ {<<>>}}]

InitCommunicator ==
    /\ InitialState
    /\ arg \in CommunicatorStates
    /\ ret = NotCalled

communicator_node ==
    /\ ret = NotCalled
    /\ ret' = Returned("communicator_node", communicator_update(arg))
    /\ UNCHANGED <<pipeVars, collVars, arg, kbVars>>

NextCommunicator == communicator_node

SpecCommunicator == InitCommunicator /\ [][NextCommunicator]_vars

\* The cells of a collected reply: variable x resultado x classification x
\* locality x period.
Cells(raw) ==
    UNION {UNION {UNION {
        {<<v, r, c, s, p>> : c \in 1..Len(raw[v].resultados[r].classificacoes),
                             p \in 1..Len(raw[v].resultados[r].series[s].serie)}
        : s \in 1..Len(raw[v].resultados[r].series)}
        : r \in 1..Len(raw[v].resultados)}
        : v \in 1..Len(raw)}

RowOfCell(row, raw, cell) ==
    LET resultado == raw[cell[1]].resultados[cell[2]]
        serie == resultado.series[cell[4]]
    IN  /\ row.variavel_id = raw[cell[1]].id
        /\ row.classificacao_id = resultado.classificacoes[cell[3]].id
        /\ row.localidade_id = serie.localidade.id
        /\ row.periodo = serie.serie[cell[5]][1]
        /\ row.valor = serie.serie[cell[5]][2]

\* C4: handed the state a successful collector run returned, the communicator
\* returns a dataframe with one row per variable x classification x locality x
\* period of the collected series, carrying the collected period and value.
C4_OneRowPerCollectedCell ==
    (/\ ret.called /\ ret.fn = "communicator_node"
     /\ arg.data # PyNone /\ arg.data.success
     /\ Cells(arg.data.raw_dados.v) # {}) =>
        LET raw == arg.data.raw_dados.v IN
        /\ ret.v.communication_result.success
        /\ Len(ret.v.dataframe) = Cardinality(Cells(raw))
        /\ \A cell \in Cells(raw) :
              \E i \in 1..Len(ret.v.dataframe) : RowOfCell(ret.v.dataframe[i], raw, cell)

---------------------------------------------------------------------------
(* The knowledge-base tools of the collector agent (src/agents/collector/tools.py) *)

\* k of _search_kb when the caller gives none.
DefaultK == 10
\* k of the filtered search of ibge_assunto_id_search.
AssuntoK == 15

RECURSIVE JoinWith(_, _)
\* sep.join(strings)
JoinWith(strings, sep) ==
    IF strings = <<>> THEN ""
    ELSE IF Len(strings) = 1 THEN strings[1]
    ELSE strings[1] \o sep \o JoinWith(Tail(strings), sep)

Take(s, k) == SubSeq(s, 1, IF Len(s) < k THEN Len(s) ELSE k)

\* vector_store.similarity_search_with_score(query, k, filter): the store
\* keeps its documents nearest first; each hit is a (document, score) pair.
similarity_search_with_score(kb, k, tipo) ==
    LET hits == SelectSeq(kb, LAMBDA doc : tipo = "" \/ doc.tipo = tipo) IN
    [i \in 1..Len(Take(hits, k)) |-> <<hits[i], i>>]

\* A call _search_kb(query, **keywords): the function takes the keywords
\* tipo_filtro and k and no other; [ok |-> FALSE] when the call raises.
_search_kb(kb, query, keywords) ==
    IF ~(DOMAIN keywords \subseteq {"tipo_filtro", "k"})
    THEN [ok |-> FALSE, error |-> "TypeError"]
    ELSE LET tipo_filtro == Get(keywords, "tipo_filtro", "")
             k == Get(keywords, "k", DefaultK)
         IN  [ok |-> TRUE,
              results |-> IF tipo_filtro # ""
                          THEN similarity_search_with_score(kb, k * 2, tipo_filtro)
                          ELSE similarity_search_with_score(kb, k, "")]

\* str.upper() over the document types of the model.
upper(tipo) == CASE tipo = "assunto" -> "ASSUNTO" [] tipo = "doc" -> "DOC"

\* ibge_assunto_id_search(query): the filtered search, the unfiltered one
\* when it finds nothing, one line per hit.
ibge_assunto_id_search(kb, query) ==
    LET filtered == _search_kb(kb, query, [tipo_filtro |-> "assunto", k |-> AssuntoK])
        results == IF filtered.results # <<>> THEN filtered.results
                   ELSE _search_kb(kb, query, [k |-> DefaultK]).results
    IN  IF results = <<>>
        THEN [ok |-> TRUE, s |-> "Nenhum identificador IBGE encontrado para esta consulta."]
        ELSE [ok |-> TRUE,
              s |-> JoinWith([i \in 1..Len(results) |->
                                 upper(results[i][1].tipo) \o ": " \o results[i][1].id \o " | "
                                 \o results[i][1].nome], "\n")]

\* ibge_documentation_search(query), the definition of lines 191-198 that the
\* module binds to the name and the agent registers: it calls _search_kb with
\* the keyword source, and reads page_content of each result.
ibge_documentation_search(kb, query) ==
    LET docs == _search_kb(kb, query, [source |-> "IBGE_Swagger_API"]) IN
    IF ~docs.ok THEN docs
    ELSE IF docs.results = <<>> THEN [ok |-> TRUE, s |-> ""]
    ELSE [ok |-> FALSE, error |-> "AttributeError"]

Docs == [id : {"70"}, nome : {"Populacao"}, tipo : {"assunto", "doc"}, page_content : {"a", "b"}]

InitTools ==
    /\ InitialState
    /\ arg \in [kb : SeqsUpTo(Docs, MaxDocs), query : {"pib", "populacao"}]
    /\ ret = NotCalled

ibge_assunto_id_search_call ==
    /\ ret = NotCalled
    /\ ret' = Returned("ibge_assunto_id_search", ibge_assunto_id_search(arg.kb, arg.query))
    /\ UNCHANGED <<pipeVars, collVars, arg, kbVars>>

ibge_documentation_search_call ==
    /\ ret = NotCalled
    /\ ret' = Returned("ibge_documentation_search", ibge_documentation_search(arg.kb, arg.query))
    /\ UNCHANGED <<pipeVars, collVars, arg, kbVars>>

NextTools == ibge_assunto_id_search_call \/ ibge_documentation_search_call

SpecTools == InitTools /\ [][NextTools]_vars

\* C10: ibge_documentation_search returns, for any query, the page contents
\* of the matching documents joined by blank lines (the empty string when
\* nothing matches) and raises no error.
C10_DocumentationSearchReturnsPages ==
    (ret.called /\ ret.fn = "ibge_documentation_search") =>
        /\ ret.v.ok
        /\ ret.v.s = JoinWith([i \in 1..Len(Take(arg.kb, DefaultK)) |-> arg.kb[i].page_content], "\n\n")

---------------------------------------------------------------------------
(* extract_last_user_question (src/agents/collector/node.py), called alone *)

\* Lines 253-256: the messages are walked from the last one back; the first
\* one that has a non-empty content gives the result, whatever its class.
RECURSIVE QuestionFrom(_, _)
QuestionFrom(messages, i) ==
    IF i = 0 THEN ""
    ELSE IF messages[i].content # "" THEN messages[i].content
    ELSE QuestionFrom(messages, i - 1)

extract_last_user_question(messages) == QuestionFrom(messages, Len(messages))

InitQuestion ==
    /\ InitialState
    /\ arg \in [messages : SeqsUpTo(AllMessages, MaxMsgs)]
    /\ ret = NotCalled

extract_last_user_question_call ==
    /\ ret = NotCalled
    /\ ret' = Returned("extract_last_user_question", extract_last_user_question(arg.messages))
    /\ UNCHANGED <<pipeVars, collVars, arg, kbVars>>

NextQuestion == extract_last_user_question_call

SpecQuestion == InitQuestion /\ [][NextQuestion]_vars

\* The user messages that carry content.
HumanMessageIndexes(messages) ==
    {i \in 1..Len(messages) : messages[i].cls = "HumanMessage" /\ messages[i].content # ""}

\* C11: extract_last_user_question returns the content of the most recent
\* user (human) message of the list, and "" when the list has none; the
\* content of an assistant or tool message is never the result.
C11_LastUserQuestion ==
    (ret.called /\ ret.fn = "extract_last_user_question") =>
        LET human == HumanMessageIndexes(arg.messages) IN
        IF human = {} THEN ret.v = ""
        ELSE ret.v = arg.messages[MaxOf(human)].content

---------------------------------------------------------------------------
(* The knowledge-base singleton (src/memory/knowledge/vector_store.py) *)

\* The connection string __init__ takes from the environment, lines 31-35.
EnvConnection == PyStr("PGVECTOR_CONNECTION")

\* IBGEKnowledgeBase.__init__, lines 15-49; id tells one instance from another.
IBGEKnowledgeBase(id, embeddings_model, connection_string, collection_name) ==
    [id |-> id,
     embeddings_model |-> embeddings_model,
     connection_string |-> IF connection_string = PyNone THEN EnvConnection ELSE connection_string,
     collection_name |-> collection_name]

\* The arguments of a call: the defaults of lines 163-165 and two others.
KnowledgeBaseArgs ==
    {[embeddings_model |-> "nomic-embed-text", connection_string |-> PyNone, collection_name |-> "ibge_docs"],
     [embeddings_model |-> "mxbai-embed-large", connection_string |-> PyNone, collection_name |-> "ibge_docs"],
     [embeddings_model |-> "nomic-embed-text", connection_string |-> PyStr("pg"), collection_name |-> "other_docs"]}

\* Re-creating the instance when the collection asked for is another one.
NeedsInstanceForArgs(current, args) ==
    current = PyNone \/ current.collection_name # args.collection_name

\* Line 180: if _ibge_knowledge_base is None.
NeedsInstance(current, args) == current = PyNone

KbCall(args, ok, instance) == [epoch |-> kb_epoch, args |-> args, ok |-> ok, instance |-> instance]

\* get_ibge_knowledge_base, lines 162-188.  The constructor opens the vector
\* store and may raise; the global is then left as it was.
get_ibge_knowledge_base ==
    /\ Len(kb_calls) < MaxKbCalls
    /\ \E args \in KnowledgeBaseArgs :
         IF NeedsInstance(_ibge_knowledge_base, args)
         THEN \E constructed \in BOOLEAN :
                IF constructed
                THEN LET instance == IBGEKnowledgeBase(Len(kb_built) + 1, args.embeddings_model,
                                                       args.connection_string, args.collection_name) IN
                     /\ _ibge_knowledge_base' = instance
                     /\ kb_built' = Append(kb_built, [epoch |-> kb_epoch, instance |-> instance])
                     /\ kb_calls' = Append(kb_calls, KbCall(args, TRUE, instance))
                ELSE /\ kb_calls' = Append(kb_calls, KbCall(args, FALSE, PyNone))
                     /\ UNCHANGED <<_ibge_knowledge_base, kb_built>>
         ELSE /\ kb_calls' = Append(kb_calls, KbCall(args, TRUE, _ibge_knowledge_base))
              /\ UNCHANGED <<_ibge_knowledge_base, kb_built>>
    /\ UNCHANGED <<pipeVars, collVars, fnVars, kb_epoch>>

\* reset_knowledge_base, lines 191-195.
reset_knowledge_base ==
    /\ kb_epoch < MaxResets
    /\ _ibge_knowledge_base' = PyNone
    /\ kb_epoch' = kb_epoch + 1
    /\ UNCHANGED <<pipeVars, collVars, fnVars, kb_built, kb_calls>>

InitKnowledgeBase ==
    /\ InitialState
    /\ arg = PyNone
    /\ ret = NotCalled

NextKnowledgeBase == get_ibge_knowledge_base \/ reset_knowledge_base

SpecKnowledgeBase == InitKnowledgeBase /\ [][NextKnowledgeBase]_vars

\* The calls that returned an instance.
KbReturns == {i \in 1..Len(kb_calls) : kb_calls[i].ok}

\* C12: between two calls of reset_knowledge_base every call of
\* get_ibge_knowledge_base returns the same instance and at most one instance
\* is constructed; the instance is the one built from the arguments of the
\* call that constructed it, whatever later calls pass; the instance returned
\* after a reset is one constructed after that reset.
C12_SingletonBetweenResets ==
    /\ \A i, j \in KbReturns :
         kb_calls[i].epoch = kb_calls[j].epoch => kb_calls[i].instance = kb_calls[j].instance
    /\ \A e \in 0..kb_epoch :
         Cardinality({b \in 1..Len(kb_built) : kb_built[b].epoch = e}) <= 1
    /\ \A i \in KbReturns :
         LET first == CHOOSE f \in KbReturns :
                         /\ kb_calls[f].epoch = kb_calls[i].epoch
                         /\ \A g \in KbReturns : kb_calls[g].epoch = kb_calls[i].epoch => f <= g
             a == kb_calls[first].args IN
         /\ kb_calls[i].instance.embeddings_model = a.embeddings_model
         /\ kb_calls[i].instance.collection_name = a.collection_name
         /\ kb_calls[i].instance.connection_string =
               (IF a.connection_string = PyNone THEN EnvConnection ELSE a.connection_string)
         /\ \E b \in 1..Len(kb_built) :
               /\ kb_built[b].instance = kb_calls[i].instance
               /\ kb_built[b].epoch = kb_calls[i].epoch
    /\ \A b, c \in 1..Len(kb_built) : b # c => kb_built[b].instance.id # kb_built[c].instance.id

\* C12 witness: two calls with different arguments returned between the same
\* two resets, and a later call returned after a reset.
C12_Witness ==
    \E i, j, k \in KbReturns :
        /\ i < j /\ j < k
        /\ kb_calls[i].epoch = kb_calls[j].epoch
        /\ kb_calls[i].args # kb_calls[j].args
        /\ kb_calls[k].epoch > kb_calls[j].epoch

---------------------------------------------------------------------------
(* The collector's result after the data request (Spec) *)

\* C13: whenever the IBGE data request of collector_node returned without
\* error, the node returns a result with success = True whose raw_dados is
\* the returned data; a failure result is produced only when a resolution
\* step or the data request itself failed.
C13_SuccessWhenDataReturned ==
    (cpc = "return" /\ data # PyNone) =>
        /\ (\E i \in 1..Len(completed) : completed[i] = "get_ibge_data") =>
              /\ data.success
              /\ data.raw_dados = loc.results
        /\ ~data.success => Last(started) # "build_result"

====
